---- MODULE Spec2Model ----
(***************************************************************************)
(* Model of "import os.py": the configuration line counter and comparison  *)
(* report of Anexo I.  Text is modelled as sequences of one-character      *)
(* strings, Python's None as the empty tuple and a present value v as      *)
(* <<v>>.  Percentages are kept in hundredths of a percent (40.0 % is      *)
(* 4000), which is the precision round(x, 2) leaves.                       *)
(***************************************************************************)
EXTENDS Integers, Sequences, FiniteSets, TLC

VARIABLES
    dir_existe,            \* os.path.isdir(CONFIG_DIR)
    fs,                    \* directory entry name -> what the entry holds
    pc,                    \* position of main()
    archivos,              \* main: archivos
    resultados,            \* main: resultados
    resultados_ordenados,  \* main: resultados_ordenados
    mas_simple,            \* main: mas_simple
    mas_complejo,          \* main: mas_complejo
    min_lineas,            \* main: min_lineas
    max_lineas,            \* main: max_lineas
    referencia,            \* main: referencia
    ref_lineas,            \* main: ref_lineas
    diff_extremos,         \* main: diff_extremos
    diff_extremos_pct,     \* main: diff_extremos_pct
    consola,               \* notices printed by main, in order
    csv,                   \* resumen_configuraciones.csv: None or <<rows>>
    csv_escrituras,        \* how many times the csv file was opened for writing
    excepcion,             \* uncaught exception that ended the run, or None
    contenido,             \* line counter alone: the text of the file
    contador               \* line counter alone: None or <<returned count>>

vars == <<dir_existe, fs, pc, archivos, resultados, resultados_ordenados,
          mas_simple, mas_complejo, min_lineas, max_lineas, referencia,
          ref_lineas, diff_extremos, diff_extremos_pct, consola, csv,
          csv_escrituras, excepcion, contenido, contador>>

main_vars == <<dir_existe, fs, pc, archivos, resultados, resultados_ordenados,
               mas_simple, mas_complejo, min_lineas, max_lineas, referencia,
               ref_lineas, diff_extremos, diff_extremos_pct, consola, csv,
               csv_escrituras, excepcion>>

-----------------------------------------------------------------------------
(* Bounds *)

MaxEntradas == 3     \* directory entries in one run
MaxCaracteres == 5   \* characters of a file given to the line counter alone

-----------------------------------------------------------------------------
(* Python values and text *)

None == <<>>

Some(v) == <<v>>

CodePoints ==
    << "\t", "\n", "\r", " ", "!", "#", "-", ".", "/",
       "0", "1", "2", "3", "4", "5", "6", "7", "8", "9",
       "A", "B", "C", "D", "E", "F", "G", "H", "I", "J", "K", "L", "M",
       "N", "O", "P", "Q", "R", "S", "T", "U", "V", "W", "X", "Y", "Z",
       "a", "b", "c", "d", "e", "f", "g", "h", "i", "j", "k", "l", "m",
       "n", "o", "p", "q", "r", "s", "t", "u", "v", "w", "x", "y", "z" >>

\* the rank of each character in code point order
Rangos ==
    [c \in {CodePoints[k] : k \in 1..Len(CodePoints)} |->
        CHOOSE k \in 1..Len(CodePoints) : CodePoints[k] = c]

Ord(c) == Rangos[c]

Mayusculas == 20..45

chr_lower(c) == IF Ord(c) \in Mayusculas THEN CodePoints[Ord(c) + 26] ELSE c

str_lower(s) == [k \in 1..Len(s) |-> chr_lower(s[k])]

\* s < t for Python strings: lexicographic by code point
str_lt(s, t) ==
    \E k \in 1..(Len(t)) :
        /\ k <= Len(s) + 1
        /\ \A j \in 1..(k - 1) : s[j] = t[j]
        /\ \/ k = Len(s) + 1
           \/ k <= Len(s) /\ Ord(s[k]) < Ord(t[k])

\* sub in s
str_in(sub, s) ==
    \E k \in 0..(Len(s) - Len(sub)) :
        \A j \in 1..Len(sub) : s[k + j] = sub[j]

str_startswith(s, prefijo) ==
    /\ Len(prefijo) <= Len(s)
    /\ \A j \in 1..Len(prefijo) : s[j] = prefijo[j]

Whitespace == {" ", "\t", "\n", "\r"}

RECURSIVE str_lstrip(_)
str_lstrip(s) ==
    IF s # <<>> /\ Head(s) \in Whitespace THEN str_lstrip(Tail(s)) ELSE s

RECURSIVE str_rstrip(_)
str_rstrip(s) ==
    IF s # <<>> /\ s[Len(s)] \in Whitespace
    THEN str_rstrip(SubSeq(s, 1, Len(s) - 1))
    ELSE s

str_strip(s) == str_rstrip(str_lstrip(s))

-----------------------------------------------------------------------------
(* Module constants *)

EXTENSIONS == { <<".", "c", "f", "g">>, <<".", "c", "o", "n", "f">>,
                <<".", "t", "x", "t">>, <<>> }

IGNORE_COMMENTS == TRUE

COMMENT_PREFIXES == { <<"#">>, <<"!">>, <<"/", "/">> }

REFERENCIA_KEYWORD == <<"m", "p", "l", "s">>

SRV == <<"s", "r", "v">>

-----------------------------------------------------------------------------
(* Line classifier and file counter *)

\* a mis-written classifier: the comment test looks at the raw line
es_linea_valida_sin_strip(linea) ==
    LET linea_limpia == str_strip(linea) IN
    IF linea_limpia = <<>> THEN FALSE
    ELSE IF IGNORE_COMMENTS
            /\ \E p \in COMMENT_PREFIXES : str_startswith(linea, p)
         THEN FALSE
         ELSE TRUE

es_linea_valida(linea) ==
    LET linea_limpia == str_strip(linea) IN
    IF linea_limpia = <<>> THEN FALSE
    ELSE IF IGNORE_COMMENTS
            /\ \E p \in COMMENT_PREFIXES : str_startswith(linea_limpia, p)
         THEN FALSE
         ELSE TRUE

\* the lines a text file yields when iterated: each ends after its "\n",
\* which it keeps; text after the last "\n" is a last line without one
RECURSIVE lineas_de(_, _)
lineas_de(texto, linea) ==
    IF texto = <<>> THEN (IF linea = <<>> THEN <<>> ELSE <<linea>>)
    ELSE IF Head(texto) = "\n"
         THEN <<Append(linea, "\n")>> \o lineas_de(Tail(texto), <<>>)
         ELSE lineas_de(Tail(texto), Append(linea, Head(texto)))

\* the loop of contar_lineas_config over the lines of the file
RECURSIVE contar_desde(_, _)
contar_desde(lineas, cuenta) ==
    IF lineas = <<>> THEN cuenta
    ELSE contar_desde(Tail(lineas),
                      IF es_linea_valida(Head(lineas))
                      THEN cuenta + 1 ELSE cuenta)

contar_lineas_config(texto) == contar_desde(lineas_de(texto, <<>>), 0)

-----------------------------------------------------------------------------
(* The file system a run sees *)

PE1_MPLS_TXT == <<"p", "e", "1", "-", "m", "p", "l", "s", ".", "t", "x", "t">>

PE1_MPLS_SRV6_TXT ==
    <<"p", "e", "1", "-", "m", "p", "l", "s", "-", "s", "r", "v", "6",
      ".", "t", "x", "t">>

PE1_MPLS_CFG_MAYUS ==
    <<"P", "E", "1", "-", "M", "P", "L", "S", ".", "c", "f", "g">>

SR_MPLS_CONF == <<"s", "r", "-", "m", "p", "l", "s", ".", "c", "o", "n", "f">>

PE1_SRV6 == <<"p", "e", "1", "-", "s", "r", "v", "6">>

NOTAS_MD == <<"n", "o", "t", "a", "s", ".", "m", "d">>

OLD_MPLS == <<"o", "l", "d", "-", "m", "p", "l", "s">>

NombresArchivo ==
    {PE1_MPLS_TXT, PE1_MPLS_SRV6_TXT, PE1_MPLS_CFG_MAYUS, SR_MPLS_CONF,
     PE1_SRV6, NOTAS_MD}

NombresDirectorio == {OLD_MPLS}

Rep(linea, n) == [k \in 1..n |-> linea]

\* the text of a file made of these lines, each closed by "\n"
RECURSIVE Texto(_)
Texto(lineas) ==
    IF lineas = <<>> THEN <<>>
    ELSE Head(lineas) \o <<"\n">> \o Texto(Tail(lineas))

SinSaltoFinal(texto) == SubSeq(texto, 1, Len(texto) - 1)

LineaCmd == <<"m", "p", "l", "s", " ", "i", "p">>

LineaSangrada == <<" ", "i", "p", " ">>

LineaBarra == <<"/", "3">>

ComentarioHash == <<"#", " ", "a">>

ComentarioBang == <<"!", " ", "b">>

ComentarioBarras == <<"\t", "/", "/", "c">>

SoloComentarios == SinSaltoFinal(Texto(<<ComentarioHash, <<>>, ComentarioBang>>))

CincoConComentarios ==
    Texto(<<ComentarioHash>> \o Rep(LineaCmd, 3)
              \o <<ComentarioBarras, <<" ">>>> \o <<LineaSangrada, LineaBarra>>)

CincoSinComentarios == SinSaltoFinal(Texto(Rep(LineaCmd, 5)))

DiezLineas ==
    Texto(Rep(LineaCmd, 4) \o <<ComentarioBang>> \o Rep(LineaSangrada, 6))

CatorceLineas == Texto(Rep(LineaSangrada, 14))

Contenidos ==
    {SoloComentarios, CincoConComentarios, CincoSinComentarios, DiezLineas,
     CatorceLineas}

\* what a directory entry can hold: a text file, a file open() refuses, or a
\* sub-directory
Archivo(texto) == [tipo |-> "archivo", texto |-> texto]

Ilegible == [tipo |-> "ilegible", texto |-> <<>>]

Directorio == [tipo |-> "directorio", texto |-> <<>>]

EstadosArchivo == {Archivo(c) : c \in Contenidos} \cup {Ilegible}

EstadoDe(nombre) ==
    IF nombre \in NombresDirectorio THEN {Directorio} ELSE EstadosArchivo

Directorios ==
    UNION { { f \in [E -> EstadosArchivo \cup {Directorio}] :
                \A n \in E : f[n] \in EstadoDe(n) } :
            E \in { S \in SUBSET (NombresArchivo \cup NombresDirectorio) :
                      Cardinality(S) <= MaxEntradas } }

\* the orders in which os.listdir may return the entries
Listados(E) ==
    { s \in [1..Cardinality(E) -> E] :
        \A a, b \in 1..Cardinality(E) : a # b => s[a] # s[b] }

-----------------------------------------------------------------------------
(* os.path *)

CONFIG_DIR == <<".">>

path_join(dir, entrada) == dir \o <<"/">> \o entrada

\* index of the last occurrence of c in s, 0 when absent
rfind(s, c) ==
    IF \E k \in 1..Len(s) : s[k] = c
    THEN CHOOSE k \in 1..Len(s) :
             s[k] = c /\ \A j \in (k + 1)..Len(s) : s[j] # c
    ELSE 0

path_basename(ruta) == SubSeq(ruta, rfind(ruta, "/") + 1, Len(ruta))

\* the extension os.path.splitext returns: from the last dot of the last
\* component, unless only dots precede it there
path_ext(p) ==
    LET sepIndex == rfind(p, "/")
        dotIndex == rfind(p, ".")
    IN  IF dotIndex > sepIndex
           /\ \E k \in (sepIndex + 1)..(dotIndex - 1) : p[k] # "."
        THEN SubSeq(p, dotIndex, Len(p))
        ELSE <<>>

path_isfile(sistema, ruta) ==
    LET nombre == path_basename(ruta) IN
    nombre \in DOMAIN sistema /\ sistema[nombre].tipo # "directorio"

-----------------------------------------------------------------------------
(* sorted() *)

\* place x after every element that is not greater than it
RECURSIVE insertar_str(_, _)
insertar_str(orden, x) ==
    IF orden = <<>> THEN <<x>>
    ELSE IF str_lt(x, Head(orden)) THEN <<x>> \o orden
         ELSE <<Head(orden)>> \o insertar_str(Tail(orden), x)

RECURSIVE sorted_str(_)
sorted_str(lista) ==
    IF lista = <<>> THEN <<>>
    ELSE insertar_str(sorted_str(SubSeq(lista, 1, Len(lista) - 1)),
                      lista[Len(lista)])

RECURSIVE insertar_por_lineas(_, _)
insertar_por_lineas(orden, x) ==
    IF orden = <<>> THEN <<x>>
    ELSE IF x.lineas_codigo < Head(orden).lineas_codigo THEN <<x>> \o orden
         ELSE <<Head(orden)>> \o insertar_por_lineas(Tail(orden), x)

\* a sort in descending order, as with reverse=True
RECURSIVE insertar_descendente(_, _)
insertar_descendente(orden, x) ==
    IF orden = <<>> THEN <<x>>
    ELSE IF x.lineas_codigo > Head(orden).lineas_codigo THEN <<x>> \o orden
         ELSE <<Head(orden)>> \o insertar_descendente(Tail(orden), x)

RECURSIVE sorted_descendente(_)
sorted_descendente(lista) ==
    IF lista = <<>> THEN <<>>
    ELSE insertar_descendente(
             sorted_descendente(SubSeq(lista, 1, Len(lista) - 1)),
             lista[Len(lista)])

\* a sort that is not stable: equal keys come out in reverse
RECURSIVE insertar_inestable(_, _)
insertar_inestable(orden, x) ==
    IF orden = <<>> THEN <<x>>
    ELSE IF x.lineas_codigo <= Head(orden).lineas_codigo THEN <<x>> \o orden
         ELSE <<Head(orden)>> \o insertar_inestable(Tail(orden), x)

RECURSIVE sorted_inestable(_)
sorted_inestable(lista) ==
    IF lista = <<>> THEN <<>>
    ELSE insertar_inestable(
             sorted_inestable(SubSeq(lista, 1, Len(lista) - 1)),
             lista[Len(lista)])

\* sorted(resultados, key=lambda x: x["lineas_codigo"]); sorted() is stable
RECURSIVE sorted_por_lineas(_)
sorted_por_lineas(lista) ==
    IF lista = <<>> THEN <<>>
    ELSE insertar_por_lineas(
             sorted_por_lineas(SubSeq(lista, 1, Len(lista) - 1)),
             lista[Len(lista)])

-----------------------------------------------------------------------------
(* File enumeration, reference detection, percentages, csv *)

\* the loop of obtener_archivos_config over the listing, before the sort
RECURSIVE recoger_archivos(_, _, _)
recoger_archivos(sistema, directorio, listado) ==
    IF listado = <<>> THEN <<>>
    ELSE LET entrada == Head(listado)
             ruta == path_join(directorio, entrada)
             resto == recoger_archivos(sistema, directorio, Tail(listado))
         IN  IF path_isfile(sistema, ruta) /\ path_ext(entrada) \in EXTENSIONS
             THEN <<ruta>> \o resto
             ELSE resto

\* the enumeration without its final sort
obtener_archivos_sin_ordenar(sistema, directorio, listado) ==
    recoger_archivos(sistema, directorio, listado)

obtener_archivos_config(sistema, directorio, listado) ==
    sorted_str(recoger_archivos(sistema, directorio, listado))

es_referencia(nombre) ==
    /\ str_in(str_lower(REFERENCIA_KEYWORD), str_lower(nombre))
    /\ ~ str_in(SRV, str_lower(nombre))

\* a reference test that forgets the "srv" exclusion
RECURSIVE encontrar_referencia_sin_srv(_)
encontrar_referencia_sin_srv(lista) ==
    IF lista = <<>> THEN None
    ELSE IF str_in(str_lower(REFERENCIA_KEYWORD), str_lower(Head(lista).archivo))
         THEN Some(Head(lista))
         ELSE encontrar_referencia_sin_srv(Tail(lista))

RECURSIVE encontrar_referencia(_)
encontrar_referencia(lista) ==
    IF lista = <<>> THEN None
    ELSE IF es_referencia(Head(lista).archivo) THEN Some(Head(lista))
         ELSE encontrar_referencia(Tail(lista))

\* round(num / den * 100, 2) in hundredths of a percent, ties to even;
\* the division raises ZeroDivisionError when den is 0.  An exact tie needs
\* den to be a multiple of 32, so for smaller line counts the float result
\* is the nearest hundredth
dividir_pct(num, den) ==
    IF den = 0 THEN [raise |-> TRUE, val |-> 0]
    ELSE LET n == num * 10000
             q == n \div den
             r == n % den
         IN  [raise |-> FALSE,
              val |-> IF 2 * r < den THEN q
                      ELSE IF 2 * r > den THEN q + 1
                      ELSE IF q % 2 = 0 THEN q ELSE q + 1]

\* the same expression with the guard on the divisor left out
porcentaje_sin_guarda(diff, base) == dividir_pct(diff, base)

\* (diff / base * 100) if base > 0 else 0.0, rounded to 2 decimals
porcentaje(diff, base) ==
    IF base > 0 THEN dividir_pct(diff, base) ELSE [raise |-> FALSE, val |-> 0]

registro_nuevo(nombre, num_lineas) ==
    [archivo |-> nombre, lineas_codigo |-> num_lineas,
     diff_vs_min_abs |-> None, diff_vs_min_pct |-> None,
     diff_vs_ref_abs |-> None, diff_vs_ref_pct |-> None]

\* a loop body that fills the reference columns only for the larger files
llenar_parcial(r, minl, refl) ==
    LET con_min ==
            [r EXCEPT !.diff_vs_min_abs = Some(r.lineas_codigo - minl),
                      !.diff_vs_min_pct =
                          Some(porcentaje(r.lineas_codigo - minl, minl).val)]
    IN  IF refl # None /\ r.lineas_codigo > refl[1]
        THEN [con_min EXCEPT
                 !.diff_vs_ref_abs = Some(r.lineas_codigo - refl[1]),
                 !.diff_vs_ref_pct =
                     Some(porcentaje(r.lineas_codigo - refl[1], refl[1]).val)]
        ELSE con_min

\* one iteration of the loop of step 4 on record r
llenar(r, minl, refl) ==
    LET con_min ==
            [r EXCEPT !.diff_vs_min_abs = Some(r.lineas_codigo - minl),
                      !.diff_vs_min_pct =
                          Some(porcentaje(r.lineas_codigo - minl, minl).val)]
    IN  IF refl # None
        THEN [con_min EXCEPT
                 !.diff_vs_ref_abs = Some(r.lineas_codigo - refl[1]),
                 !.diff_vs_ref_pct =
                     Some(porcentaje(r.lineas_codigo - refl[1], refl[1]).val)]
        ELSE con_min

\* whether that iteration raises
llenar_raises(r, minl, refl) ==
    \/ porcentaje(r.lineas_codigo - minl, minl).raise
    \/ refl # None /\ porcentaje(r.lineas_codigo - refl[1], refl[1]).raise

campos ==
    << <<"a", "r", "c", "h", "i", "v", "o">>,
       <<"l", "i", "n", "e", "a", "s", "_", "c", "o", "d", "i", "g", "o">>,
       <<"d", "i", "f", "f", "_", "v", "s", "_", "m", "i", "n", "_", "a", "b", "s">>,
       <<"d", "i", "f", "f", "_", "v", "s", "_", "m", "i", "n", "_", "p", "c", "t">>,
       <<"d", "i", "f", "f", "_", "v", "s", "_", "r", "e", "f", "_", "a", "b", "s">>,
       <<"d", "i", "f", "f", "_", "v", "s", "_", "r", "e", "f", "_", "p", "c", "t">> >>

\* csv writes None as the empty cell and a number n as the cell <<n>>
celda(v) == IF v = None THEN <<>> ELSE <<v[1]>>

\* a row writer that drops the diff-vs-min columns
fila_sin_min(r) ==
    << r.archivo, <<r.lineas_codigo>>, <<>>, <<>>,
       celda(r.diff_vs_ref_abs), celda(r.diff_vs_ref_pct) >>

fila(r) ==
    << r.archivo, <<r.lineas_codigo>>,
       celda(r.diff_vs_min_abs), celda(r.diff_vs_min_pct),
       celda(r.diff_vs_ref_abs), celda(r.diff_vs_ref_pct) >>

\* the file guardar_csv leaves: the header row, then one row per record
guardar_csv(lista) == <<campos>> \o [k \in 1..Len(lista) |-> fila(lista[k])]

-----------------------------------------------------------------------------
(* main() *)

Imprimir(aviso) == consola' = Append(consola, aviso)

\* lines 127-130: the directory test
Main_Inicio ==
    /\ pc = "inicio"
    /\ IF ~ dir_existe
       THEN /\ Imprimir("ERROR_carpeta_no_existe")
            /\ pc' = "fin"
       ELSE /\ pc' = "listar"
            /\ UNCHANGED consola
    /\ UNCHANGED <<dir_existe, fs, archivos, resultados, resultados_ordenados,
                   mas_simple, mas_complejo, min_lineas, max_lineas,
                   referencia, ref_lineas, diff_extremos, diff_extremos_pct,
                   csv, csv_escrituras, excepcion, contenido, contador>>

\* lines 132-141: enumerate the files; os.listdir returns the entries in an
\* arbitrary order
Main_Listar ==
    /\ pc = "listar"
    /\ \E listado \in Listados(DOMAIN fs) :
          /\ archivos' = obtener_archivos_config(fs, CONFIG_DIR, listado)
          /\ IF archivos' = <<>>
             THEN /\ Imprimir("AVISO_sin_archivos")
                  /\ pc' = "fin"
             ELSE /\ pc' = "contar"
                  /\ UNCHANGED consola
    /\ resultados' = <<>>
    /\ UNCHANGED <<dir_existe, fs, resultados_ordenados,
                   mas_simple, mas_complejo, min_lineas, max_lineas,
                   referencia, ref_lineas, diff_extremos, diff_extremos_pct,
                   csv, csv_escrituras, excepcion, contenido, contador>>

\* lines 144-158: one iteration of the counting loop; open() raising ends the
\* run, nothing in main catches it
Main_Contar ==
    /\ pc = "contar"
    /\ LET ruta == archivos[Len(resultados) + 1]
           nombre == path_basename(ruta)
       IN  IF fs[nombre].tipo = "ilegible"
           THEN /\ excepcion' = Some("PermissionError")
                /\ pc' = "abortado"
                /\ UNCHANGED resultados
           ELSE /\ resultados' =
                      Append(resultados,
                             registro_nuevo(nombre,
                                 contar_lineas_config(fs[nombre].texto)))
                /\ pc' = IF Len(resultados') = Len(archivos)
                         THEN "comparar" ELSE "contar"
                /\ UNCHANGED excepcion
    /\ UNCHANGED <<dir_existe, fs, archivos, resultados_ordenados,
                   mas_simple, mas_complejo, min_lineas, max_lineas,
                   referencia, ref_lineas, diff_extremos, diff_extremos_pct,
                   consola, csv, csv_escrituras, contenido, contador>>

\* lines 162-193: sort, extremes, reference, and the loop that fills the
\* difference fields; the records are shared, so every name bound to one of
\* them sees the filled fields
Main_Comparar ==
    /\ pc = "comparar"
    /\ LET ordenados == sorted_por_lineas(resultados)
           minl == ordenados[1].lineas_codigo
           maxl == ordenados[Len(ordenados)].lineas_codigo
           ref == encontrar_referencia(ordenados)
           refl == IF ref # None THEN Some(ref[1].lineas_codigo) ELSE None
       IN  IF \E k \in 1..Len(ordenados) : llenar_raises(ordenados[k], minl, refl)
           THEN /\ excepcion' = Some("ZeroDivisionError")
                /\ pc' = "abortado"
                /\ UNCHANGED <<resultados, resultados_ordenados, mas_simple,
                               mas_complejo, min_lineas, max_lineas,
                               referencia, ref_lineas>>
           ELSE /\ resultados_ordenados' =
                      [k \in 1..Len(ordenados) |-> llenar(ordenados[k], minl, refl)]
                /\ resultados' =
                      [k \in 1..Len(resultados) |-> llenar(resultados[k], minl, refl)]
                /\ mas_simple' = Some(llenar(ordenados[1], minl, refl))
                /\ mas_complejo' =
                      Some(llenar(ordenados[Len(ordenados)], minl, refl))
                /\ min_lineas' = Some(minl)
                /\ max_lineas' = Some(maxl)
                /\ referencia' =
                      IF ref # None THEN Some(llenar(ref[1], minl, refl))
                      ELSE None
                /\ ref_lineas' = refl
                /\ pc' = "imprimir"
                /\ UNCHANGED excepcion
    /\ UNCHANGED <<dir_existe, fs, archivos, diff_extremos, diff_extremos_pct,
                   consola, csv, csv_escrituras, contenido, contador>>

\* lines 195-235: the printed summary, with the difference between extremes
Main_Imprimir ==
    /\ pc = "imprimir"
    /\ LET diff == max_lineas[1] - min_lineas[1]
           pct == porcentaje(diff, max_lineas[1])
       IN  IF pct.raise
           THEN /\ excepcion' = Some("ZeroDivisionError")
                /\ pc' = "abortado"
                /\ UNCHANGED <<diff_extremos, diff_extremos_pct, consola>>
           ELSE /\ diff_extremos' = Some(diff)
                /\ diff_extremos_pct' = Some(pct.val)
                /\ Imprimir(IF referencia # None
                            THEN "referencia_identificada"
                            ELSE "NOTA_sin_referencia")
                /\ pc' = "guardar"
                /\ UNCHANGED excepcion
    /\ UNCHANGED <<dir_existe, fs, archivos, resultados, resultados_ordenados,
                   mas_simple, mas_complejo, min_lineas, max_lineas,
                   referencia, ref_lineas, csv, csv_escrituras,
                   contenido, contador>>

\* lines 237-239: write the csv file
Main_Guardar ==
    /\ pc = "guardar"
    /\ csv' = Some(guardar_csv(resultados_ordenados))
    /\ csv_escrituras' = csv_escrituras + 1
    /\ Imprimir("csv_generado")
    /\ pc' = "fin"
    /\ UNCHANGED <<dir_existe, fs, archivos, resultados, resultados_ordenados,
                   mas_simple, mas_complejo, min_lineas, max_lineas,
                   referencia, ref_lineas, diff_extremos, diff_extremos_pct,
                   excepcion, contenido, contador>>

MainInicial(existe, sistema) ==
    /\ dir_existe = existe
    /\ fs = sistema
    /\ pc = "inicio"
    /\ archivos = <<>>
    /\ resultados = <<>>
    /\ resultados_ordenados = <<>>
    /\ mas_simple = None
    /\ mas_complejo = None
    /\ min_lineas = None
    /\ max_lineas = None
    /\ referencia = None
    /\ ref_lineas = None
    /\ diff_extremos = None
    /\ diff_extremos_pct = None
    /\ consola = <<>>
    /\ csv = None
    /\ csv_escrituras = 0
    /\ excepcion = None

Init ==
    /\ \E existe \in BOOLEAN :
          \E sistema \in (IF existe THEN Directorios ELSE {<<>>}) :
              MainInicial(existe, sistema)
    /\ contenido = <<>>
    /\ contador = None

Next ==
    \/ Main_Inicio
    \/ Main_Listar
    \/ Main_Contar
    \/ Main_Comparar
    \/ Main_Imprimir
    \/ Main_Guardar

Spec == Init /\ [][Next]_vars

-----------------------------------------------------------------------------
(* The line counter on arbitrary file contents *)

Alfabeto == {" ", "#", "!", "/", "a", "\n"}

ContenidosPosibles == UNION { [1..n -> Alfabeto] : n \in 0..MaxCaracteres }

InitContar ==
    /\ MainInicial(FALSE, <<>>)
    /\ contenido \in ContenidosPosibles
    /\ contador = None

\* lines 62-71: one call of contar_lineas_config on an opened file
Contar ==
    /\ contador = None
    /\ contador' = Some(contar_lineas_config(contenido))
    /\ UNCHANGED <<contenido, main_vars>>

NextContar == Contar

SpecContar == InitContar /\ [][NextContar]_vars

-----------------------------------------------------------------------------
(* Properties *)

Blancos == {" ", "\t", "\n", "\r"}

\* the positions of contenido at which a line starts
IniciosDeLinea ==
    {a \in 1..Len(contenido) : a = 1 \/ contenido[a - 1] = "\n"}

\* the line starting at a counts when, before it ends, it has a first
\* non-blank character and that character does not open a comment
CuentaComoCodigo(a) ==
    \E k \in a..Len(contenido) :
        /\ contenido[k] \notin Blancos
        /\ \A j \in a..(k - 1) : contenido[j] \in Blancos \ {"\n"}
        /\ contenido[k] # "#"
        /\ contenido[k] # "!"
        /\ ~ (contenido[k] = "/" /\ k < Len(contenido) /\ contenido[k + 1] = "/")

\* C1: the count contar_lineas_config returns is >= 0 and is the number of
\* lines that are non-blank after trimming and do not start with #, ! or //
C1_ConteoLineas ==
    contador # None =>
        /\ contador[1] >= 0
        /\ contador[1] =
              Cardinality({a \in IniciosDeLinea : CuentaComoCodigo(a)})

C1_Witness ==
    /\ contador = Some(1)
    /\ contenido = <<" ", "/", "/", "\n", "/">>

Terminado == pc \in {"fin", "abortado"}

Comparado == pc \in {"imprimir", "guardar"} \/ (pc = "fin" /\ csv # None)

Candidatos ==
    {n \in DOMAIN fs : fs[n].tipo # "directorio" /\ path_ext(n) \in EXTENSIONS}

Legibles == {n \in Candidatos : fs[n].tipo = "archivo"}

NombresEnCsv == {csv[1][k][1] : k \in 2..Len(csv[1])}

\* C2: a candidate file that cannot be opened is left out, and the run still
\* writes a complete report for the remaining files
C2_ArchivoIlegibleExcluido ==
    (Terminado /\ dir_existe /\ Legibles # {}) =>
        /\ excepcion = None
        /\ csv # None
        /\ NombresEnCsv = Legibles

MinimoDe(lista) ==
    CHOOSE m \in {lista[k].lineas_codigo : k \in 1..Len(lista)} :
        \A k \in 1..Len(lista) : m <= lista[k].lineas_codigo

\* C3: after the comparison step min_lineas is the minimum count, every
\* record has diff_vs_min_abs = count - minimum >= 0, and the difference is 0
\* exactly for the records that have the minimum count
C3_DiferenciaContraMinimo ==
    Comparado =>
        /\ min_lineas = Some(MinimoDe(resultados))
        /\ \A k \in 1..Len(resultados_ordenados) :
              LET r == resultados_ordenados[k] IN
              /\ r.diff_vs_min_abs = Some(r.lineas_codigo - MinimoDe(resultados))
              /\ r.diff_vs_min_abs[1] >= 0
              /\ (r.diff_vs_min_abs[1] = 0) <=>
                     (r.lineas_codigo = MinimoDe(resultados))

C3_Witness ==
    /\ Comparado
    /\ Len(resultados_ordenados) = 3
    /\ resultados_ordenados[1].diff_vs_min_abs = Some(0)
    /\ resultados_ordenados[2].diff_vs_min_abs = Some(0)
    /\ resultados_ordenados[3].diff_vs_min_abs = Some(9)

Pares == {<<resultados[k].archivo, resultados[k].lineas_codigo>> :
              k \in 1..Len(resultados)}

ParesElegibles == {p \in Pares : es_referencia(p[1])}

\* C4: the reference depends only on the set of (name, count) pairs: it is
\* the eligible pair that is least by count and then by name, whatever order
\* the directory listing came in
C4_ReferenciaSinOrden ==
    Comparado =>
        IF ParesElegibles = {} THEN referencia = None
        ELSE /\ referencia # None
             /\ <<referencia[1].archivo, referencia[1].lineas_codigo>>
                    \in ParesElegibles
             /\ \A q \in ParesElegibles :
                    \/ q[1] = referencia[1].archivo
                    \/ referencia[1].lineas_codigo < q[2]
                    \/ /\ referencia[1].lineas_codigo = q[2]
                       /\ str_lt(referencia[1].archivo, q[1])

C4_Witness ==
    /\ Comparado
    /\ Cardinality(ParesElegibles) = 3
    /\ \A p \in ParesElegibles : p[2] = 5
    /\ referencia # None
    /\ referencia[1].archivo = PE1_MPLS_CFG_MAYUS

Contiene(nombre, palabra) ==
    \E k \in 1..Len(nombre) :
        /\ k + Len(palabra) - 1 <= Len(nombre)
        /\ SubSeq(str_lower(nombre), k, k + Len(palabra) - 1) = palabra

Elegible(nombre) ==
    /\ Contiene(nombre, <<"m", "p", "l", "s">>)
    /\ ~ Contiene(nombre, <<"s", "r", "v">>)

RegistroDe(nombre) ==
    CHOOSE r \in {resultados_ordenados[k] : k \in 1..Len(resultados_ordenados)} :
        r.archivo = nombre

\* C5: the reference is the first record in ascending count order whose
\* lowercased name contains "mpls" and not "srv", and none when no name
\* qualifies; with pe1-mpls.txt (10) and pe1-mpls-srv6.txt (14) the reference
\* is pe1-mpls.txt and pe1-mpls-srv6.txt gets +4 lines, 40.0 %
C5_PrimeraReferencia ==
    Comparado =>
        /\ IF \E k \in 1..Len(resultados_ordenados) :
                  Elegible(resultados_ordenados[k].archivo)
           THEN \E k \in 1..Len(resultados_ordenados) :
                   /\ Elegible(resultados_ordenados[k].archivo)
                   /\ \A j \in 1..(k - 1) :
                          ~ Elegible(resultados_ordenados[j].archivo)
                   /\ referencia = Some(resultados_ordenados[k])
           ELSE referencia = None
        /\ Pares = {<<PE1_MPLS_TXT, 10>>, <<PE1_MPLS_SRV6_TXT, 14>>} =>
              /\ referencia # None
              /\ referencia[1].archivo = PE1_MPLS_TXT
              /\ RegistroDe(PE1_MPLS_SRV6_TXT).diff_vs_ref_abs = Some(4)
              /\ RegistroDe(PE1_MPLS_SRV6_TXT).diff_vs_ref_pct = Some(4000)

C5_Witness ==
    /\ pc = "fin"
    /\ Pares = {<<PE1_MPLS_TXT, 10>>, <<PE1_MPLS_SRV6_TXT, 14>>}
    /\ referencia # None

\* C6: the reference fields are all unset when there is no reference, and
\* all set, with diff_vs_ref_abs = count - reference count, when there is one
C6_ReferenciaNuncaParcial ==
    Comparado =>
        \/ /\ referencia = None
           /\ \A k \in 1..Len(resultados_ordenados) :
                 /\ resultados_ordenados[k].diff_vs_ref_abs = None
                 /\ resultados_ordenados[k].diff_vs_ref_pct = None
        \/ /\ referencia # None
           /\ \A k \in 1..Len(resultados_ordenados) :
                 /\ resultados_ordenados[k].diff_vs_ref_abs =
                       Some(resultados_ordenados[k].lineas_codigo
                                - referencia[1].lineas_codigo)
                 /\ resultados_ordenados[k].diff_vs_ref_pct # None

C6_Witness ==
    /\ pc = "fin"
    /\ csv # None
    /\ referencia # None
    /\ \E k \in 1..Len(resultados_ordenados) :
          resultados_ordenados[k].diff_vs_ref_abs = Some(-5)
    /\ \E k \in 1..Len(resultados_ordenados) :
          resultados_ordenados[k].diff_vs_ref_abs = Some(4)

\* C7: no run divides by zero; the percentages are 0.0 when their divisor
\* (min_lineas, ref_lineas, max_lineas) is 0
C7_SinDivisionPorCero ==
    /\ excepcion # Some("ZeroDivisionError")
    /\ (Comparado /\ min_lineas = Some(0)) =>
           \A k \in 1..Len(resultados_ordenados) :
               resultados_ordenados[k].diff_vs_min_pct = Some(0)
    /\ (Comparado /\ ref_lineas = Some(0)) =>
           \A k \in 1..Len(resultados_ordenados) :
               resultados_ordenados[k].diff_vs_ref_pct = Some(0)
    /\ (diff_extremos_pct # None /\ max_lineas = Some(0)) =>
           diff_extremos_pct = Some(0)

C7_Witness ==
    /\ pc = "fin"
    /\ min_lineas = Some(0)
    /\ ref_lineas = Some(0)
    /\ max_lineas = Some(14)
    /\ diff_extremos_pct = Some(10000)

\* C8: a run with no directory or no matching file ends with a notice and
\* without a csv file; every other run ends only after the csv was written
C8_SalidaLimpia ==
    Terminado =>
        IF ~ dir_existe \/ Candidatos = {}
        THEN /\ csv = None
             /\ excepcion = None
             /\ Len(consola) = 1
        ELSE csv # None

\* C9: the csv file is written once per successful run, after the
\* comparison, with exactly one row per enumerated file, each with its count
\* and with both diff-vs-min cells filled
C9_CsvCompleto ==
    /\ csv_escrituras <= 1
    /\ (pc = "fin" /\ archivos # <<>>) => csv_escrituras = 1
    /\ csv # None =>
          /\ csv_escrituras = 1
          /\ pc = "fin"
          /\ min_lineas # None
          /\ csv[1][1] = campos
          /\ Len(csv[1]) = Len(archivos) + 1
          /\ NombresEnCsv = {path_basename(archivos[k]) : k \in 1..Len(archivos)}
          /\ NombresEnCsv = Candidatos
          /\ \A k \in 2..Len(csv[1]) :
                LET f == csv[1][k] IN
                /\ f[2] = <<contar_lineas_config(fs[f[1]].texto)>>
                /\ f[3] = <<f[2][1] - min_lineas[1]>>
                /\ f[4] # <<>>

C9_Witness ==
    /\ csv # None
    /\ Len(csv[1]) = 3
    /\ csv[1][2][5] = <<>>
    /\ csv[1][3][4] = <<18000>>

PosicionEnArchivos(nombre) ==
    CHOOSE k \in 1..Len(archivos) : path_basename(archivos[k]) = nombre

\* C10: the records are the counted files in ascending count order, equal
\* counts in enumeration (name) order; the simplest is the first, with
\* min_lineas, and the most complex is the last, with max_lineas
C10_OrdenEstable ==
    Comparado =>
        /\ Len(resultados_ordenados) = Len(archivos)
        /\ {resultados_ordenados[k].archivo : k \in 1..Len(resultados_ordenados)}
              = {path_basename(archivos[k]) : k \in 1..Len(archivos)}
        /\ \A a, b \in 1..Len(resultados_ordenados) :
              a < b =>
                 LET ra == resultados_ordenados[a]
                     rb == resultados_ordenados[b]
                 IN  /\ ra.lineas_codigo <= rb.lineas_codigo
                     /\ ra.lineas_codigo = rb.lineas_codigo =>
                           /\ PosicionEnArchivos(ra.archivo)
                                 < PosicionEnArchivos(rb.archivo)
                           /\ str_lt(ra.archivo, rb.archivo)
        /\ mas_simple = Some(resultados_ordenados[1])
        /\ mas_simple[1].lineas_codigo = min_lineas[1]
        /\ mas_complejo = Some(resultados_ordenados[Len(resultados_ordenados)])
        /\ mas_complejo[1].lineas_codigo = max_lineas[1]

C10_Witness ==
    /\ Comparado
    /\ Len(resultados_ordenados) = 3
    /\ resultados_ordenados[1].lineas_codigo = 5
    /\ resultados_ordenados[2].lineas_codigo = 14
    /\ resultados_ordenados[3].lineas_codigo = 14
    /\ resultados_ordenados[2].archivo = PE1_MPLS_CFG_MAYUS
    /\ resultados_ordenados[3].archivo = PE1_SRV6

====
